---------------------------- MODULE Spec2Model ----------------------------
(***************************************************************************)
(* DragonForge scripts/patcher.py: the regex patch rules (mk_asgn, the     *)
(* *_P category tables), HighPatcher._find_files, _apply_content and       *)
(* apply, and patches/gpu_profiles.py GPUCfg.patches.                      *)
(*                                                                         *)
(* Text is a sequence of one-character strings; a path is a sequence of    *)
(* segments, each segment a sequence of characters.                        *)
(***************************************************************************)
EXTENDS Naturals, Sequences, FiniteSets

VARIABLES
  src,        \* apply's argument: the root path
  profile,    \* HighPatcher.profile
  fs,         \* the file system: path -> text, or NoFile
  cats,       \* the module-level category tables, by rule id
  pc,         \* position in apply / in the pass driver
  target_dir, \* apply's target_dir
  cap_files,  \* apply's cap_files, as the set of discovered paths
  todo,       \* the paths of cap_files the for loop has not visited yet
  patches,    \* apply's patches (rule ids, in order)
  fp,         \* the loop variable
  content,    \* the text in memory
  ret,        \* what apply returned ("none" before it returns)
  reads,      \* path -> number of open(fp, 'r') that succeeded
  writes,     \* path -> number of open(fp, 'w') that succeeded
  fs0,        \* the file system when apply was called
  prev,       \* the text handed to the latest _apply_content call
  passes      \* number of _apply_content calls made by the pass driver

vars == <<src, profile, fs, cats, pc, target_dir, cap_files, todo, patches,
          fp, content, ret, reads, writes, fs0, prev, passes>>

-----------------------------------------------------------------------------
(* Characters, as Python's re classifies them.                             *)

Letters ==
  {"a","b","c","d","e","f","g","h","i","j","k","l","m","n","o","p","q","r",
   "s","t","u","v","w","x","y","z","A","B","C","D","E","F","G","H","I","J",
   "K","L","M","N","O","P","Q","R","S","T","U","V","W","X","Y","Z"}

Digits == {"0","1","2","3","4","5","6","7","8","9"}

WordChars == Letters \cup Digits \cup {"_"}

SpaceChars == {" ", "\t", "\n", "\r", "\f"}

\* \w
IsWord(c) == c \in WordChars

\* \s
IsSpace(c) == c \in SpaceChars

\* the characters re.escape puts a backslash before
SpecialChars ==
  {"(", ")", "[", "]", "{", "}", "?", "*", "+", "-", "|", "^", "$", "\\",
   ".", "&", "~", "#", " ", "\t", "\n", "\r", "\f"}

RECURSIVE re_escape(_)
re_escape(s) ==
  IF s = <<>> THEN <<>>
  ELSE (IF Head(s) \in SpecialChars THEN <<"\\", Head(s)>> ELSE <<Head(s)>>)
       \o re_escape(Tail(s))

\* The atoms a piece of pattern text without groups or classes compiles to:
\* a backslash makes the next character a literal, an unescaped dot is the
\* wildcard, any other character is a literal.
AnyChar == "ANY"

RECURSIVE CompileAtoms(_)
CompileAtoms(t) ==
  IF t = <<>> THEN <<>>
  ELSE IF Head(t) = "\\" /\ Len(t) >= 2
       THEN <<t[2]>> \o CompileAtoms(Tail(Tail(t)))
  ELSE IF Head(t) = "." THEN <<AnyChar>> \o CompileAtoms(Tail(t))
  ELSE <<Head(t)>> \o CompileAtoms(Tail(t))

\* '.' without DOTALL matches anything but a newline
AtomMatches(a, c) == IF a = AnyChar THEN c # "\n" ELSE a = c

\* Compiled form of  (\b<name>\s*=\s*)([^;]+);  (wb) and of
\* (<name>\s*=\s*)[^;]+;  (no wb): the name atoms and whether \b leads.

\* variant of mk_asgn: the pattern without its leading \b
mk_asgn_nowb(var) == [wb |-> FALSE, atoms |-> CompileAtoms(re_escape(var))]

mk_asgn(var) == [wb |-> TRUE, atoms |-> CompileAtoms(re_escape(var))]

\* the hand-written patterns (line 23, and g2-g4 of GPUCfg.patches)
BarePattern(name) == [wb |-> FALSE, atoms |-> CompileAtoms(name)]

-----------------------------------------------------------------------------
(* The rule tables.  A rule is <<pattern, replacement, id>>; the           *)
(* replacement is stored as the literal text that follows \g<1>.           *)

GPU_P ==
  << <<mk_asgn(<<"a", "d", "a", "p", "t", "e", "r", "_", "i", "d", ".", "v", "e", "n", "d", "o", "r", "_", "i", "d">>),
        <<"0", "x", "1", "0", "0", "2", ";">>, "gpu_vid">>,
     <<mk_asgn(<<"a", "d", "a", "p", "t", "e", "r", "_", "i", "d", ".", "d", "e", "v", "i", "c", "e", "_", "i", "d">>),
        <<"0", "x", "7", "3", "D", "F", ";">>, "gpu_did">>,
     <<BarePattern(<<"S", "h", "a", "r", "e", "d", "S", "y", "s", "t", "e", "m", "M", "e", "m", "o", "r", "y">>),
        <<"1", "6", "3", "8", "4", "U", "L", "L", " ", "*", " ", "1", "0", "2", "4", " ", "*", " ", "1", "0", "2", "4", ";">>, "gpu_mem">> >>

SM_P ==
  << <<mk_asgn(<<"d", "a", "t", "a", "-", ">", "H", "i", "g", "h", "e", "s", "t", "S", "h", "a", "d", "e", "r", "M", "o", "d", "e", "l">>),
        <<"D", "3", "D", "_", "S", "H", "A", "D", "E", "R", "_", "M", "O", "D", "E", "L", "_", "6", "_", "7", ";">>, "sm">>,
     <<mk_asgn(<<"i", "n", "f", "o", ".", "H", "i", "g", "h", "e", "s", "t", "S", "h", "a", "d", "e", "r", "M", "o", "d", "e", "l">>),
        <<"D", "3", "D", "_", "S", "H", "A", "D", "E", "R", "_", "M", "O", "D", "E", "L", "_", "6", "_", "7", ";">>, "sm_info">> >>

WV_P ==
  << <<mk_asgn(<<"o", "p", "t", "i", "o", "n", "s", "1", ".", "W", "a", "v", "e", "O", "p", "s">>),
        <<"T", "R", "U", "E", ";">>, "wv0">>,
     <<mk_asgn(<<"o", "p", "t", "i", "o", "n", "s", "1", ".", "W", "a", "v", "e", "L", "a", "n", "e", "C", "o", "u", "n", "t", "M", "i", "n">>),
        <<"3", "2", ";">>, "wv1">>,
     <<mk_asgn(<<"o", "p", "t", "i", "o", "n", "s", "1", ".", "W", "a", "v", "e", "L", "a", "n", "e", "C", "o", "u", "n", "t", "M", "a", "x">>),
        <<"1", "2", "8", ";">>, "wv2">> >>

RB_P ==
  << <<mk_asgn(<<"o", "p", "t", "i", "o", "n", "s", ".", "R", "e", "s", "o", "u", "r", "c", "e", "B", "i", "n", "d", "i", "n", "g", "T", "i", "e", "r">>),
        <<"D", "3", "D", "1", "2", "_", "R", "E", "S", "O", "U", "R", "C", "E", "_", "B", "I", "N", "D", "I", "N", "G", "_", "T", "I", "E", "R", "_", "3", ";">>, "rb0">>,
     <<mk_asgn(<<"o", "p", "t", "i", "o", "n", "s", ".", "T", "i", "l", "e", "d", "R", "e", "s", "o", "u", "r", "c", "e", "s", "T", "i", "e", "r">>),
        <<"D", "3", "D", "1", "2", "_", "T", "I", "L", "E", "D", "_", "R", "E", "S", "O", "U", "R", "C", "E", "S", "_", "T", "I", "E", "R", "_", "4", ";">>, "rb1">>,
     <<mk_asgn(<<"o", "p", "t", "i", "o", "n", "s", ".", "R", "e", "s", "o", "u", "r", "c", "e", "H", "e", "a", "p", "T", "i", "e", "r">>),
        <<"D", "3", "D", "1", "2", "_", "R", "E", "S", "O", "U", "R", "C", "E", "_", "H", "E", "A", "P", "_", "T", "I", "E", "R", "_", "2", ";">>, "rb2">> >>

SO_P ==
  << <<mk_asgn(<<"o", "p", "t", "i", "o", "n", "s", ".", "D", "o", "u", "b", "l", "e", "P", "r", "e", "c", "i", "s", "i", "o", "n", "F", "l", "o", "a", "t", "S", "h", "a", "d", "e", "r", "O", "p", "s">>),
        <<"T", "R", "U", "E", ";">>, "so0">>,
     <<mk_asgn(<<"o", "p", "t", "i", "o", "n", "s", "1", ".", "I", "n", "t", "6", "4", "S", "h", "a", "d", "e", "r", "O", "p", "s">>),
        <<"T", "R", "U", "E", ";">>, "so1">>,
     <<mk_asgn(<<"o", "p", "t", "i", "o", "n", "s", "4", ".", "N", "a", "t", "i", "v", "e", "1", "6", "B", "i", "t", "S", "h", "a", "d", "e", "r", "O", "p", "s", "S", "u", "p", "p", "o", "r", "t", "e", "d">>),
        <<"T", "R", "U", "E", ";">>, "so2">> >>

MS_P ==
  << <<mk_asgn(<<"o", "p", "t", "i", "o", "n", "s", "7", ".", "M", "e", "s", "h", "S", "h", "a", "d", "e", "r", "T", "i", "e", "r">>),
        <<"D", "3", "D", "1", "2", "_", "M", "E", "S", "H", "_", "S", "H", "A", "D", "E", "R", "_", "T", "I", "E", "R", "_", "1", ";">>, "ms0">>,
     <<mk_asgn(<<"o", "p", "t", "i", "o", "n", "s", "1", "2", ".", "E", "n", "h", "a", "n", "c", "e", "d", "B", "a", "r", "r", "i", "e", "r", "s", "S", "u", "p", "p", "o", "r", "t", "e", "d">>),
        <<"T", "R", "U", "E", ";">>, "ms7">> >>

RT_P ==
  << <<mk_asgn(<<"o", "p", "t", "i", "o", "n", "s", "5", ".", "R", "a", "y", "t", "r", "a", "c", "i", "n", "g", "T", "i", "e", "r">>),
        <<"D", "3", "D", "1", "2", "_", "R", "A", "Y", "T", "R", "A", "C", "I", "N", "G", "_", "T", "I", "E", "R", "_", "1", "_", "1", ";">>, "rt0">>,
     <<mk_asgn(<<"o", "p", "t", "i", "o", "n", "s", "5", ".", "R", "e", "n", "d", "e", "r", "P", "a", "s", "s", "e", "s", "T", "i", "e", "r">>),
        <<"D", "3", "D", "1", "2", "_", "R", "E", "N", "D", "E", "R", "_", "P", "A", "S", "S", "_", "T", "I", "E", "R", "_", "2", ";">>, "rt1">>,
     <<mk_asgn(<<"o", "p", "t", "i", "o", "n", "s", "6", ".", "V", "a", "r", "i", "a", "b", "l", "e", "S", "h", "a", "d", "i", "n", "g", "R", "a", "t", "e", "T", "i", "e", "r">>),
        <<"D", "3", "D", "1", "2", "_", "V", "A", "R", "I", "A", "B", "L", "E", "_", "S", "H", "A", "D", "I", "N", "G", "_", "R", "A", "T", "E", "_", "T", "I", "E", "R", "_", "2", ";">>, "rt2">>,
     <<mk_asgn(<<"o", "p", "t", "i", "o", "n", "s", "6", ".", "S", "h", "a", "d", "i", "n", "g", "R", "a", "t", "e", "I", "m", "a", "g", "e", "T", "i", "l", "e", "S", "i", "z", "e">>),
        <<"8", ";">>, "rt3">>,
     <<mk_asgn(<<"o", "p", "t", "i", "o", "n", "s", "6", ".", "B", "a", "c", "k", "g", "r", "o", "u", "n", "d", "P", "r", "o", "c", "e", "s", "s", "i", "n", "g", "S", "u", "p", "p", "o", "r", "t", "e", "d">>),
        <<"T", "R", "U", "E", ";">>, "rt4">> >>

\* SF_P in the source (SF_ is reserved in TLA+)
SamplerFeedback_P ==
  << <<mk_asgn(<<"o", "p", "t", "i", "o", "n", "s", "7", ".", "S", "a", "m", "p", "l", "e", "r", "F", "e", "e", "d", "b", "a", "c", "k", "T", "i", "e", "r">>),
        <<"D", "3", "D", "1", "2", "_", "S", "A", "M", "P", "L", "E", "R", "_", "F", "E", "E", "D", "B", "A", "C", "K", "_", "T", "I", "E", "R", "_", "1", "_", "0", ";">>, "sf0">>,
     <<mk_asgn(<<"o", "p", "t", "i", "o", "n", "s", "2", ".", "D", "e", "p", "t", "h", "B", "o", "u", "n", "d", "s", "T", "e", "s", "t", "S", "u", "p", "p", "o", "r", "t", "e", "d">>),
        <<"T", "R", "U", "E", ";">>, "sf1">> >>

TX_P ==
  << <<mk_asgn(<<"o", "p", "t", "i", "o", "n", "s", "8", ".", "U", "n", "a", "l", "i", "g", "n", "e", "d", "B", "l", "o", "c", "k", "T", "e", "x", "t", "u", "r", "e", "s", "S", "u", "p", "p", "o", "r", "t", "e", "d">>),
        <<"T", "R", "U", "E", ";">>, "tx0">> >>

RN_P ==
  << <<mk_asgn(<<"o", "p", "t", "i", "o", "n", "s", "1", "5", ".", "T", "r", "i", "a", "n", "g", "l", "e", "F", "a", "n", "S", "u", "p", "p", "o", "r", "t", "e", "d">>),
        <<"T", "R", "U", "E", ";">>, "rn4">> >>
\* patches/gpu_profiles.py: D3MU.patches(), vid 0x1002, did 0x163f, mem 16384
\* (its mk_asgn is imported; taken to be the one of scripts/patcher.py)
D3MU_patches ==
  << <<mk_asgn(<<"a", "d", "a", "p", "t", "e", "r", "_", "i", "d", ".", "v", "e", "n", "d", "o", "r", "_", "i", "d">>),
        <<"0", "x", "1", "0", "0", "2", ";">>, "g0">>,
     <<mk_asgn(<<"a", "d", "a", "p", "t", "e", "r", "_", "i", "d", ".", "d", "e", "v", "i", "c", "e", "_", "i", "d">>),
        <<"0", "x", "1", "6", "3", "f", ";">>, "g1">>,
     <<BarePattern(<<"V", "e", "n", "d", "o", "r", "I", "d">>),
        <<"0", "x", "1", "0", "0", "2", ";">>, "g2">>,
     <<BarePattern(<<"D", "e", "v", "i", "c", "e", "I", "d">>),
        <<"0", "x", "1", "6", "3", "f", ";">>, "g3">>,
     <<BarePattern(<<"S", "h", "a", "r", "e", "d", "S", "y", "s", "t", "e", "m", "M", "e", "m", "o", "r", "y">>),
        <<"1", "6", "3", "8", "4", " ", "*", " ", "1", "0", "2", "4", " ", "*", " ", "1", "0", "2", "4", ";">>, "g4">> >>

ALL_P == GPU_P \o SM_P \o WV_P \o RB_P \o SO_P \o MS_P \o RT_P \o SamplerFeedback_P \o TX_P \o RN_P

-----------------------------------------------------------------------------
(* re.sub(pattern, repl, content, flags=re.MULTILINE)                      *)

\* \b at position p of s (between s[p-1] and s[p])
WordBoundaryAt(s, p) ==
  LET before == p > 1 /\ p - 1 <= Len(s) /\ IsWord(s[p - 1])
      after  == p >= 1 /\ p <= Len(s) /\ IsWord(s[p])
  IN  before # after

AtomsMatchAt(atoms, s, p) ==
  /\ p + Len(atoms) - 1 <= Len(s)
  /\ \A i \in 1..Len(atoms) : AtomMatches(atoms[i], s[p + i - 1])

\* the least element of a non-empty set of positions
Least(S) == CHOOSE i \in S : \A j \in S : i <= j

\* \s* is greedy: the first position >= p that holds no whitespace
SkipSpace(s, p) ==
  Least({ i \in p..(Len(s) + 1) : i > Len(s) \/ ~ IsSpace(s[i]) })

\* [^;]+; from position e: the position of the ';' that closes the match,
\* 0 when there is none
ValueEnd(s, e) ==
  LET semis == { i \in e..Len(s) : s[i] = ";" }
  IN  IF semis = {} THEN 0 ELSE Least(semis)

NoMatch == [ok |-> FALSE, g1 |-> 0, end |-> 0]

\* variant of MatchAt: the match stops short of the closing ';'
MatchAtKeepSemi(pat, s, p) ==
  IF ~ ( AtomsMatchAt(pat.atoms, s, p) /\ (pat.wb => WordBoundaryAt(s, p)) )
  THEN NoMatch
  ELSE LET q == SkipSpace(s, p + Len(pat.atoms))
       IN  IF ~ (q <= Len(s) /\ s[q] = "=") THEN NoMatch
           ELSE LET e == q + 1
                    r == SkipSpace(s, e)
                    t == ValueEnd(s, e)
                IN  IF t = 0 \/ t = e THEN NoMatch
                    ELSE [ok |-> TRUE,
                          g1 |-> IF r - 1 < t - 2 THEN r - 1 ELSE t - 2,
                          end |-> t - 1]

\* The match of the pattern that starts at p, if any: g1 is the last
\* position of group 1, end the position of the closing ';'.  When only
\* whitespace separates '=' from ';' the second \s* gives one character
\* back to [^;]+.
MatchAt(pat, s, p) ==
  IF ~ ( AtomsMatchAt(pat.atoms, s, p) /\ (pat.wb => WordBoundaryAt(s, p)) )
  THEN NoMatch
  ELSE LET q == SkipSpace(s, p + Len(pat.atoms))
       IN  IF ~ (q <= Len(s) /\ s[q] = "=") THEN NoMatch
           ELSE LET e == q + 1
                    r == SkipSpace(s, e)
                    t == ValueEnd(s, e)
                IN  IF t = 0 \/ t = e THEN NoMatch
                    ELSE [ok |-> TRUE,
                          g1 |-> IF r - 1 < t - 2 THEN r - 1 ELSE t - 2,
                          end |-> t]

\* The start of the leftmost match at or after p, 0 when there is none
Search(pat, s, p) ==
  LET starts == { i \in p..Len(s) :
                    AtomMatches(pat.atoms[1], s[i]) /\ MatchAt(pat, s, i).ok }
  IN  IF starts = {} THEN 0 ELSE Least(starts)

\* The start positions of the non-overlapping matches, leftmost first
RECURSIVE FindAll(_, _, _)
FindAll(pat, s, p) ==
  LET b == Search(pat, s, p)
  IN  IF b = 0 THEN <<>>
      ELSE <<b>> \o FindAll(pat, s, MatchAt(pat, s, b).end + 1)

\* The replacement of one match: \g<1>, then the literal text
Expand(repl, s, p, m) == SubSeq(s, p, m.g1) \o repl

\* The text from p on, each match replaced and the rest copied
RECURSIVE SubFrom(_, _, _, _)
SubFrom(pat, repl, s, p) ==
  LET b == Search(pat, s, p)
  IN  IF b = 0 THEN SubSeq(s, p, Len(s))
      ELSE LET m == MatchAt(pat, s, b)
           IN  SubSeq(s, p, b - 1) \o Expand(repl, s, b, m)
                 \o SubFrom(pat, repl, s, m.end + 1)

re_sub(rule, s) == SubFrom(rule[1], rule[2], s, 1)

\* variant of _apply_content: every rule is applied to the text as given,
\* the result is the last rule's
RECURSIVE apply_content_original(_, _)
apply_content_original(text, rules) ==
  IF rules = <<>> THEN text
  ELSE IF Len(rules) = 1 THEN re_sub(rules[1], text)
  ELSE apply_content_original(text, Tail(rules))

\* HighPatcher._apply_content: the rules in list order, each on the result
\* of the one before (out is evaluated before the next rule is taken)
RECURSIVE apply_content(_, _)
apply_content(text, rules) ==
  IF rules = <<>> THEN text
  ELSE LET out == re_sub(rules[1], text)
       IN  IF Len(out) >= 0 THEN apply_content(out, Tail(rules)) ELSE out

-----------------------------------------------------------------------------
(* Rule ids.  The state holds rule lists by id; RuleOf gives the rule.     *)

Ids(rules) == [i \in DOMAIN rules |-> rules[i][3]]

KnownRules == ALL_P \o D3MU_patches

RuleOf(id) == LET i == CHOOSE i \in DOMAIN KnownRules : KnownRules[i][3] = id
              IN  KnownRules[i]

Rules(ids) == [i \in DOMAIN ids |-> RuleOf(ids[i])]

-----------------------------------------------------------------------------
(* Input texts: up to MaxChunks pieces of ChunkPool, concatenated.         *)

MaxChunks == 3

ChunkPool ==
  { <<"a", "d", "a", "p", "t", "e", "r", "_", "i", "d", ".", "v", "e", "n", "d", "o", "r", "_", "i", "d">>,
    <<"a", "d", "a", "p", "t", "e", "r", "_", "i", "d", ".", "d", "e", "v", "i", "c", "e", "_", "i", "d">>,
    <<"a", "d", "a", "p", "t", "e", "r", "_", "i", "d", "x", "v", "e", "n", "d", "o", "r", "_", "i", "d">>,
    <<"o", "p", "t", "i", "o", "n", "s", "1", ".", "W", "a", "v", "e", "O", "p", "s">>,
    <<"x">>,
    <<" ">>,
    <<"=">>,
    <<";">>,
    <<" ", "=", " ", "x", ";">> }

RECURSIVE Concat(_)
Concat(cs) == IF cs = <<>> THEN <<>> ELSE Head(cs) \o Concat(Tail(cs))

Texts == { Concat(cs) : cs \in UNION { [1..n -> ChunkPool] : n \in 0..MaxChunks } }

\* the rule lists handed to _apply_content: the two profiles, and two-rule
\* lists: the two rules that rewrite adapter_id.device_id (gpu_did of
\* GPU_P, g1 of D3MU.patches()) in both orders, and two unrelated rules
PairLists ==
  { <<"gpu_did", "g1">>, <<"g1", "gpu_did">>, <<"gpu_vid", "gpu_did">> }

PassRuleLists == {Ids(ALL_P), Ids(GPU_P)} \cup PairLists

-----------------------------------------------------------------------------
(* Paths and the file system.                                              *)

libs      == <<"l", "i", "b", "s">>
vkd3d     == <<"v", "k", "d", "3", "d">>
srcdir    == <<"s", "r", "c">>
device_c  == <<"d", "e", "v", "i", "c", "e", ".", "c">>
utils_c   == <<"u", "t", "i", "l", "s", ".", "c">>
tests     == <<"t", "e", "s", "t", "s">>
demos     == <<"d", "e", "m", "o", "s">>
include   == <<"i", "n", "c", "l", "u", "d", "e">>
dotgit    == <<".", "g", "i", "t">>
contests  == <<"c", "o", "n", "t", "e", "s", "t", "s">>
work      == <<"w", "o", "r", "k">>
repo_github == <<"r", "e", "p", "o", ".", "g", "i", "t", "h", "u", "b">>

CAP_F == <<device_c>>

EX_D == <<tests, demos, include, dotgit>>

\* os.path.join on segments, as the string the program sees
RECURSIVE PathStr(_)
PathStr(p) ==
  IF p = <<>> THEN <<>>
  ELSE IF Len(p) = 1 THEN p[1]
  ELSE p[1] \o <<"/">> \o PathStr(Tail(p))

\* ex in f
Contains(f, ex) ==
  \E i \in 1..(Len(f) + 1) :
     /\ i + Len(ex) - 1 <= Len(f)
     /\ \A k \in 1..Len(ex) : f[i + k - 1] = ex[k]

IsPrefix(d, p) == Len(d) <= Len(p) /\ SubSeq(p, 1, Len(d)) = d

\* what the file system holds at a path where there is no file (no text:
\* a text holds one-character strings only)
NoFile == <<"ENOENT">>

Existing(files) == { p \in DOMAIN files : files[p] # NoFile }

\* os.path.isdir(d): something lives below d
isdir(files, d) == \E p \in Existing(files) : IsPrefix(d, p) /\ Len(p) > Len(d)

\* glob skips the names that start with a dot when it expands '**'
Hidden(seg) == seg # <<>> /\ seg[1] = "."

\* glob.glob(os.path.join(d, '**', pat), recursive=True)
glob(files, d, pat) ==
  { p \in Existing(files) :
      /\ IsPrefix(d, p) /\ Len(p) > Len(d)
      /\ p[Len(p)] = pat
      /\ \A i \in (Len(d) + 1)..(Len(p) - 1) : ~ Hidden(p[i]) }

\* variant of _find_files: the listing without the EX_D filter
find_files_unfiltered(files, d, pat) == glob(files, d, pat)

\* HighPatcher._find_files: the listing, less every path whose string holds
\* an EX_D entry
find_files(files, d, pat) ==
  { f \in glob(files, d, pat) :
      ~ \E k \in DOMAIN EX_D : Contains(PathStr(f), EX_D[k]) }

\* apply, line 102
vkd3d_dirs(root) == <<root \o <<libs, vkd3d>>, root \o <<srcdir>>, root>>

Qualifies(files, d) == isdir(files, d) /\ glob(files, d, device_c) # {}

\* variant of probe: the root is tried before its subdirectories
probe_root_first(files, root) ==
  LET ds == <<root, root \o <<libs, vkd3d>>, root \o <<srcdir>>>>
      ok == { i \in DOMAIN ds : Qualifies(files, ds[i]) }
  IN  IF ok = {} THEN root
      ELSE ds[CHOOSE i \in ok : \A j \in ok : i <= j]

\* apply, line 103: the first candidate that is a directory and lists a
\* device.c, else src
probe(files, root) ==
  LET ds == vkd3d_dirs(root)
      ok == { i \in DOMAIN ds : Qualifies(files, ds[i]) }
  IN  IF ok = {} THEN root
      ELSE ds[CHOOSE i \in ok : \A j \in ok : i <= j]

\* variant of resolve: every name resolves to the full list
resolve_all(prof, c) ==
  c.GPU_P \o c.SM_P \o c.WV_P \o c.RB_P \o c.SO_P \o c.MS_P \o c.RT_P
    \o c.SamplerFeedback_P \o c.TX_P \o c.RN_P

\* apply, lines 109-112
resolve(prof, c) ==
  IF prof = "high"
  THEN c.GPU_P \o c.SM_P \o c.WV_P \o c.RB_P \o c.SO_P \o c.MS_P \o c.RT_P
         \o c.SamplerFeedback_P \o c.TX_P \o c.RN_P
  ELSE c.GPU_P

\* the module-level tables as the interpreter holds them after import
Tables ==
  [GPU_P |-> Ids(GPU_P), SM_P |-> Ids(SM_P), WV_P |-> Ids(WV_P),
   RB_P |-> Ids(RB_P), SO_P |-> Ids(SO_P), MS_P |-> Ids(MS_P),
   RT_P |-> Ids(RT_P), SamplerFeedback_P |-> Ids(SamplerFeedback_P),
   TX_P |-> Ids(TX_P), RN_P |-> Ids(RN_P)]

-----------------------------------------------------------------------------
(* The trees apply is run on: at most MaxFiles of the paths of RelPool     *)
(* exist under the root, each holding one of FileTexts.                    *)

MaxFiles == 3

\* the stock assignments of the end-to-end scenario
F_stock ==
  <<"a", "d", "a", "p", "t", "e", "r", "_", "i", "d", ".", "v", "e", "n", "d", "o", "r", "_", "i", "d", " ", "=", " ", "0", "x", "1", "0", "D", "E", ";", "\n", "a", "d", "a", "p", "t", "e", "r", "_", "i", "d", ".", "d", "e", "v", "i", "c", "e", "_", "i", "d", " ", "=", " ", "0", "x", "2", "6", "8", "4", ";", "\n">>

\* the same file already in the target state
F_target ==
  <<"a", "d", "a", "p", "t", "e", "r", "_", "i", "d", ".", "v", "e", "n", "d", "o", "r", "_", "i", "d", " ", "=", " ", "0", "x", "1", "0", "0", "2", ";", "\n", "a", "d", "a", "p", "t", "e", "r", "_", "i", "d", ".", "d", "e", "v", "i", "c", "e", "_", "i", "d", " ", "=", " ", "0", "x", "7", "3", "D", "F", ";", "\n">>

FileTexts == {F_stock, F_target}

RelPool ==
  { <<libs, vkd3d, device_c>>,
    <<libs, vkd3d, tests, device_c>>,
    <<libs, vkd3d, utils_c>>,
    <<srcdir, device_c>>,
    <<srcdir, contests, device_c>>,
    <<device_c>>,
    <<srcdir, vkd3d, device_c>>,
    <<libs, vkd3d, dotgit, device_c>> }

RootPool == { <<work>>, <<repo_github>> }

ProfilePool == {"high", "fast"}

Trees(root) ==
  { t \in [ { root \o r : r \in RelPool } -> FileTexts \cup {NoFile} ] :
      Cardinality(Existing(t)) <= MaxFiles }

-----------------------------------------------------------------------------
(* HighPatcher(profile).apply(src)                                         *)

Zeros(files) == [p \in DOMAIN files |-> 0]

Init ==
  /\ src \in RootPool
  /\ profile \in ProfilePool
  /\ fs \in Trees(src)
  /\ fs0 = fs
  /\ cats = Tables
  /\ pc = "probe"
  /\ target_dir = <<>>
  /\ cap_files = {}
  /\ todo = {}
  /\ patches = <<>>
  /\ fp = <<>>
  /\ content = <<>>
  /\ prev = <<>>
  /\ passes = 0
  /\ ret = "none"
  /\ reads = Zeros(fs)
  /\ writes = Zeros(fs)

\* lines 102-103
Probe ==
  /\ pc = "probe"
  /\ target_dir' = probe(fs, src)
  /\ pc' = "find"
  /\ UNCHANGED <<src, profile, fs, cats, cap_files, todo, patches, fp,
                 content, ret, reads, writes, fs0, prev, passes>>

\* lines 105-107
FindFiles ==
  /\ pc = "find"
  /\ cap_files' = UNION { find_files(fs, target_dir, CAP_F[i]) : i \in DOMAIN CAP_F }
  /\ todo' = cap_files'
  /\ pc' = "resolve"
  /\ UNCHANGED <<src, profile, fs, cats, target_dir, patches, fp, content,
                 ret, reads, writes, fs0, prev, passes>>

\* lines 109-112
Resolve ==
  /\ pc = "resolve"
  /\ patches' = resolve(profile, cats)
  /\ pc' = "loop"
  /\ UNCHANGED <<src, profile, fs, cats, target_dir, cap_files, todo, fp,
                 content, ret, reads, writes, fs0, prev, passes>>

\* lines 114-116: the next path of cap_files (glob's order is the
\* directory order, any) is opened and read
ReadFile ==
  /\ pc = "loop"
  /\ \E f \in todo :
       /\ fp' = f
       /\ content' = fs[f]
       /\ reads' = [reads EXCEPT ![f] = @ + 1]
  /\ pc' = "apply"
  /\ UNCHANGED <<src, profile, fs, cats, target_dir, cap_files, todo,
                 patches, ret, writes, fs0, prev, passes>>

\* line 115 raises (OSError): nothing catches it, apply is left
ReadFail ==
  /\ pc = "loop"
  /\ \E f \in todo : fp' = f
  /\ pc' = "raised"
  /\ UNCHANGED <<src, profile, fs, cats, target_dir, cap_files, todo,
                 patches, content, ret, reads, writes, fs0, prev, passes>>

\* line 117
ApplyRules ==
  /\ pc = "apply"
  /\ prev' = content
  /\ content' = apply_content(content, Rules(patches))
  /\ pc' = "write"
  /\ UNCHANGED <<src, profile, fs, cats, target_dir, cap_files, todo,
                 patches, fp, ret, reads, writes, fs0, passes>>

\* lines 118-120
WriteFile ==
  /\ pc = "write"
  /\ fs' = [fs EXCEPT ![fp] = content]
  /\ writes' = [writes EXCEPT ![fp] = @ + 1]
  /\ todo' = todo \ {fp}
  /\ pc' = "loop"
  /\ UNCHANGED <<src, profile, cats, target_dir, cap_files, patches, fp,
                 content, ret, reads, fs0, prev, passes>>

\* line 118 raises (the file is left as it was), or line 119 raises after
\* open(fp, 'w') truncated the file
WriteFail ==
  /\ pc = "write"
  /\ \/ UNCHANGED <<fs, writes>>
     \/ /\ fs' = [fs EXCEPT ![fp] = <<>>]
        /\ writes' = [writes EXCEPT ![fp] = @ + 1]
  /\ pc' = "raised"
  /\ UNCHANGED <<src, profile, cats, target_dir, cap_files, todo, patches,
                 fp, content, ret, reads, fs0, prev, passes>>

\* line 122
Return ==
  /\ pc = "loop"
  /\ todo = {}
  /\ ret' = 0
  /\ pc' = "done"
  /\ UNCHANGED <<src, profile, fs, cats, target_dir, cap_files, todo,
                 patches, fp, content, reads, writes, fs0, prev, passes>>

Next ==
  \/ Probe
  \/ FindFiles
  \/ Resolve
  \/ ReadFile
  \/ ReadFail
  \/ ApplyRules
  \/ WriteFile
  \/ WriteFail
  \/ Return

Spec == Init /\ [][Next]_vars

-----------------------------------------------------------------------------
(* _apply_content on its own: a text and a rule list are chosen and the    *)
(* list is applied to the text; a profile is then applied once more, to    *)
(* the result.                                                             *)

InitApply ==
  /\ content \in Texts
  /\ patches \in PassRuleLists
  /\ prev = content
  /\ passes = 0
  /\ pc = "pass"
  /\ cats = Tables
  /\ src = <<>> /\ profile = "high" /\ fs = <<>> /\ fs0 = <<>>
  /\ target_dir = <<>> /\ cap_files = {} /\ todo = {} /\ fp = <<>>
  /\ ret = "none" /\ reads = <<>> /\ writes = <<>>

ApplyPass ==
  /\ pc = "pass"
  /\ passes < (IF patches \in PairLists THEN 1 ELSE 2)
  /\ prev' = content
  /\ content' = apply_content(content, Rules(patches))
  /\ passes' = passes + 1
  /\ UNCHANGED <<src, profile, fs, cats, pc, target_dir, cap_files, todo,
                 patches, fp, ret, reads, writes, fs0>>

NextApply == ApplyPass

SpecApply == InitApply /\ [][NextApply]_vars

-----------------------------------------------------------------------------
(* Properties.                                                             *)

V_vendor == <<"a", "d", "a", "p", "t", "e", "r", "_", "i", "d", ".", "v", "e", "n", "d", "o", "r", "_", "i", "d">>
V_device == <<"a", "d", "a", "p", "t", "e", "r", "_", "i", "d", ".", "d", "e", "v", "i", "c", "e", "_", "i", "d">>
V_wave   == <<"o", "p", "t", "i", "o", "n", "s", "1", ".", "W", "a", "v", "e", "O", "p", "s">>

T_1002 == <<"0", "x", "1", "0", "0", "2", ";">>
T_73DF == <<"0", "x", "7", "3", "D", "F", ";">>
T_163f == <<"0", "x", "1", "6", "3", "f", ";">>

Profiles == {Ids(ALL_P), Ids(GPU_P)}

\* C1: for both profiles, a second pass of _apply_content over the result
\* of the first pass returns that result unchanged.
C1_Idempotent ==
  (pc = "pass" /\ passes = 2 /\ patches \in Profiles) => content = prev

\* a text the first pass rewrote (no input piece holds a digit) and the
\* second pass left alone
C1_Witness ==
  /\ pc = "pass" /\ passes = 2 /\ patches = Ids(ALL_P)
  /\ Contains(content, T_1002)
  /\ content = prev

\* C6: with a two-rule list the result is the second rule applied to what
\* the first rule made of the text.
C6_OrderedCumulative ==
  (pc = "pass" /\ passes = 1 /\ Len(patches) = 2)
    => content = re_sub(RuleOf(patches[2]), re_sub(RuleOf(patches[1]), prev))

\* gpu_did then g1: the first rule wrote 0x73DF, the second matched that
\* statement and rewrote it, and the other order ends differently
C6_Witness ==
  /\ pc = "pass" /\ passes = 1 /\ patches = <<"gpu_did", "g1">>
  /\ ~ Contains(prev, T_73DF)
  /\ Contains(re_sub(RuleOf("gpu_did"), prev), T_73DF)
  /\ ~ Contains(content, T_73DF)
  /\ Contains(content, T_163f)
  /\ content # re_sub(RuleOf("gpu_did"), re_sub(RuleOf("g1"), prev))

\* the variable names that occur in the input texts
ScopedVars == {V_vendor, V_device, V_wave}

\* C8: every match of mk_asgn(v) starts at a word boundary, spells v
\* character for character, and holds one ';', its last character.
C8_ScopedMatch ==
  \A v \in ScopedVars :
    LET pat == mk_asgn(v)
        starts == FindAll(pat, content, 1)
    IN  \A k \in DOMAIN starts :
          LET b == starts[k]
              m == MatchAt(pat, content, b)
          IN  /\ b = 1 \/ ~ IsWord(content[b - 1])
              /\ b + Len(v) - 1 <= Len(content)
              /\ SubSeq(content, b, b + Len(v) - 1) = v
              /\ m.end <= Len(content)
              /\ content[m.end] = ";"
              /\ \A i \in b..(m.end - 1) : content[i] # ";"

\* ' adapter_id.vendor_id = x;' was matched and rewritten
C8_Witness ==
  /\ pc = "pass" /\ passes = 1
  /\ prev = <<" ">> \o V_vendor \o <<" ", "=", " ", "x", ";">>
  /\ content = <<" ">> \o V_vendor \o <<" ", "=", " ">> \o T_1002
  /\ FindAll(mk_asgn(V_vendor), prev, 1) = <<2>>

-----------------------------------------------------------------------------

FullProfileIds ==
  <<"gpu_vid", "gpu_did", "gpu_mem", "sm", "sm_info", "wv0", "wv1", "wv2",
    "rb0", "rb1", "rb2", "so0", "so1", "so2", "ms0", "ms7",
    "rt0", "rt1", "rt2", "rt3", "rt4", "sf0", "sf1", "tx0", "rn4">>

Resolved == pc \in {"loop", "apply", "write", "raised", "done"}

Changed == { p \in DOMAIN fs : fs[p] # fs0[p] }

\* C7: 'high' resolves to all categories in the order GPU_P ... RN_P, any
\* other name to GPU_P; resolving is always possible and leaves the
\* category tables as they were.
C7_ProfileResolution ==
  /\ Resolved =>
       patches = IF profile = "high" THEN FullProfileIds
                 ELSE <<"gpu_vid", "gpu_did", "gpu_mem">>
  /\ pc = "resolve" => ENABLED Resolve
  /\ cats = Tables
  /\ cats.GPU_P = <<"gpu_vid", "gpu_did", "gpu_mem">>

\* a run under an unknown profile name that patched a file
C7_Witness ==
  /\ pc = "done" /\ profile = "fast"
  /\ patches = <<"gpu_vid", "gpu_did", "gpu_mem">>
  /\ Changed # {}

\* d holds a device.c at some depth, as the recursive listing shows it:
\* on a path whose directories below d are not dot-named
HoldsTarget(d) ==
  \E p \in DOMAIN fs0 :
     /\ fs0[p] # NoFile
     /\ Len(p) > Len(d) /\ SubSeq(p, 1, Len(d)) = d
     /\ p[Len(p)] = device_c
     /\ \A i \in (Len(d) + 1)..(Len(p) - 1) : p[i][1] # "."

ExcludedNames == {tests, demos, include, dotgit}

UnderExcludedDir(p) == \E i \in 1..(Len(p) - 1) : p[i] \in ExcludedNames

\* C10: only discovered files are written (named device.c, below the
\* search directory, no excluded name in the path), each at most once and
\* after it was read; every other file keeps its content.
C10_WriteFrame ==
  \A p \in DOMAIN fs :
    /\ writes[p] >= 1 =>
         /\ p \in cap_files
         /\ p[Len(p)] = device_c
         /\ Len(p) > Len(target_dir) /\ SubSeq(p, 1, Len(target_dir)) = target_dir
         /\ \A ex \in ExcludedNames : ~ Contains(PathStr(p), ex)
    /\ p \notin cap_files => fs[p] = fs0[p]
    /\ UnderExcludedDir(p) => fs[p] = fs0[p]
    /\ writes[p] <= 1
    /\ writes[p] <= reads[p]

\* two files were discovered, read and written once each while the
\* device.c under tests kept its stock text
C10_Witness ==
  /\ pc = "done"
  /\ Cardinality(cap_files) = 2
  /\ \A p \in cap_files : reads[p] = 1 /\ writes[p] = 1 /\ fs[p] = F_target
  /\ \E p \in DOMAIN fs :
       UnderExcludedDir(p) /\ fs0[p] = F_stock /\ fs[p] = F_stock

-----------------------------------------------------------------------------

\* C2: a file is written only when the patched text differs from the text
\* that was read.
C2_WriteOnlyIfChanged ==
  \A p \in DOMAIN fs : writes[p] >= 1 => fs[p] # fs0[p]

\* C3: apply returns the number of files whose content the run changed.
C3_ReturnsChangedCount ==
  pc = "done" => ret = Cardinality(Changed)

\* C4: when reading or writing one file fails, every other discovered file
\* is still read, patched and written.
C4_FailureIsolated ==
  pc \in {"raised", "done"} =>
    \A p \in cap_files \ {fp} : reads[p] = 1 /\ writes[p] = 1

\* C5: a device.c below the search directory is left out exactly when it
\* lies under a directory named tests, demos, include or .git.
C5_DiscoveryExclusion ==
  pc \notin {"probe", "find"} =>
    \A p \in DOMAIN fs0 :
      ( /\ fs0[p] # NoFile
        /\ p[Len(p)] = device_c
        /\ Len(p) > Len(target_dir)
        /\ SubSeq(p, 1, Len(target_dir)) = target_dir )
      => (p \notin cap_files <=> UnderExcludedDir(p))

=============================================================================
